---- MODULE Spec2Model ----
(***************************************************************************)
(* Model of the universal AI testing tool: the action dispatcher           *)
(* (src/actions.py, process_next_action and the per-platform executors)    *)
(* and the step loop that drives it (src/ai-testing-tool.py, __main__).    *)
(*                                                                         *)
(* Conventions of the model                                                *)
(*  - a JSON object is a function from its keys (strings) to values;       *)
(*    `"k" in data` is  "k" \in DOMAIN data;                               *)
(*  - the text the oracle returns is a record [form, obj]: form "garbage"  *)
(*    is text json.loads rejects, "scalar" is valid JSON that is not an    *)
(*    object, "object" is a JSON object whose content is obj;              *)
(*  - a bounds string is the sequence of its characters, so that           *)
(*    parse_bounds is computed by splitting and converting as Python does; *)
(*  - a Python float that is an integer plus a multiple of 1/2 is the      *)
(*    integer number of halves it holds (5.5 is 11 halves);                *)
(*  - a driver call is a record [op, by, sel, nums]; the calls a dispatch  *)
(*    attempted, in order, are kept in driver_calls.                       *)
(***************************************************************************)
EXTENDS Integers, Sequences, FiniteSets, TLC

(***************************************************************************)
(* Program constants                                                       *)
(***************************************************************************)
\* while (page_source_file is not None and step < 50)
StepCap == 50
\* duration = data.get("duration", 500)
DefaultDuration == 500
\* sleep(data.get("timeout", 5000) / 1000)
DefaultTimeout == 5000
\* WebDriverWait(driver, 10)
WebWait == 10

(***************************************************************************)
(* Bounds of the model                                                     *)
(***************************************************************************)
\* number of consecutive oracle answers drawn from the whole instruction set
MaxVaried == 1
\* number of tasks in the task file
MaxTasks == 2

(***************************************************************************)
(* Python helpers: str.split, int(), slicing                               *)
(***************************************************************************)
RECURSIVE SplitFrom(_, _, _, _)
SplitFrom(s, sep, i, cur) ==
    IF i > Len(s) THEN <<cur>>
    ELSE IF i + Len(sep) - 1 <= Len(s) /\ SubSeq(s, i, i + Len(sep) - 1) = sep
         THEN <<cur>> \o SplitFrom(s, sep, i + Len(sep), <<>>)
         ELSE SplitFrom(s, sep, i + 1, Append(cur, s[i]))

\* s.split(sep) for a non-empty separator
split(s, sep) == SplitFrom(s, sep, 1, <<>>)

Digits == {"0", "1", "2", "3", "4", "5", "6", "7", "8", "9"}

DigitVal(c) ==
    CASE c = "0" -> 0 [] c = "1" -> 1 [] c = "2" -> 2 [] c = "3" -> 3
      [] c = "4" -> 4 [] c = "5" -> 5 [] c = "6" -> 6 [] c = "7" -> 7
      [] c = "8" -> 8 [] c = "9" -> 9

RECURSIVE LStrip(_)
LStrip(s) == IF s /= <<>> /\ s[1] = " " THEN LStrip(Tail(s)) ELSE s

RECURSIVE RStrip(_)
RStrip(s) ==
    IF s /= <<>> /\ s[Len(s)] = " " THEN RStrip(SubSeq(s, 1, Len(s) - 1)) ELSE s

\* int() strips surrounding whitespace before it reads the number
strip(s) == RStrip(LStrip(s))

\* the text of the literal with its sign removed
Unsigned(t) == IF t /= <<>> /\ t[1] \in {"+", "-"} THEN Tail(t) ELSE t

\* int(s) accepts: optional sign, digits, single underscores between digits
IntLiteralOk(s) ==
    LET u == Unsigned(strip(s))
    IN  /\ u /= <<>>
        /\ \A i \in 1..Len(u) : u[i] \in Digits \cup {"_"}
        /\ u[1] /= "_"
        /\ u[Len(u)] /= "_"
        /\ \A i \in 1..(Len(u) - 1) : ~(u[i] = "_" /\ u[i + 1] = "_")

RECURSIVE DigitsValue(_, _)
DigitsValue(u, acc) ==
    IF u = <<>> THEN acc
    ELSE IF u[1] = "_" THEN DigitsValue(Tail(u), acc)
         ELSE DigitsValue(Tail(u), 10 * acc + DigitVal(u[1]))

\* int(s) of a literal int() accepts
IntValue(s) ==
    LET t == strip(s)
        v == DigitsValue(Unsigned(t), 0)
    IN  IF t[1] = "-" THEN 0 - v ELSE v

\* s[1:]
DropFirst(s) == SubSeq(s, 2, Len(s))
\* s[:-1]
DropLast(s) == SubSeq(s, 1, Len(s) - 1)

(***************************************************************************)
(* parse_bounds: [ok |-> whether it returns, rect |-> <<l, t, r, b>>]      *)
(***************************************************************************)
NoRect == <<0, 0, 0, 0>>

\* `a, b = map(int, text.split(","))` returns exactly when there are two
\* parts and int() accepts both
PairOk(text) ==
    LET parts == split(text, <<",">>)
    IN  Len(parts) = 2 /\ IntLiteralOk(parts[1]) /\ IntLiteralOk(parts[2])

PairValueSwapped(text) ==
    LET parts == split(text, <<",">>)
    IN  <<IntValue(parts[2]), IntValue(parts[1])>>

PairValue(text) ==
    LET parts == split(text, <<",">>)
    IN  <<IntValue(parts[1]), IntValue(parts[2])>>

parse_bounds(bounds) ==
    LET halves == split(bounds, <<"]", "[">>)
    IN  IF Len(halves) /= 2 THEN [ok |-> FALSE, rect |-> NoRect]
        ELSE LET left_top == DropFirst(halves[1])
                 right_bottom == DropLast(halves[2])
             IN  IF PairOk(left_top) /\ PairOk(right_bottom)
                 THEN [ok |-> TRUE,
                       rect |-> PairValue(left_top) \o PairValue(right_bottom)]
                 ELSE [ok |-> FALSE, rect |-> NoRect]

\* n // 2 (floor division), in halves
FloorDiv2(n) == 2 * (n \div 2)

\* n / 2 (true division): n halves
TrueDiv2(n) == n
\* an int plus a float counted in halves
IntPlusHalves(i, h) == 2 * i + h

\* left + (right - left) / 2, top + (bottom - top) / 2, in halves
CenterOf(rect) ==
    <<IntPlusHalves(rect[1], TrueDiv2(rect[3] - rect[1])),
      IntPlusHalves(rect[2], TrueDiv2(rect[4] - rect[2]))>>

(***************************************************************************)
(* JSON objects                                                            *)
(***************************************************************************)
\* data[k] = v on a dict
With(d, k, v) == [x \in DOMAIN d \cup {k} |-> IF x = k THEN v ELSE d[x]]

\* data.get(k, default)
Get(d, k, default) == IF k \in DOMAIN d THEN d[k] ELSE default

\* the text forms of an oracle answer
Garbage == [form |-> "garbage", obj |-> [text |-> "tap the button"]]
Scalar == [form |-> "scalar", obj |-> [text |-> "42"]]
\* json.dumps(data) of a dict
json_dumps(data) == [form |-> "object", obj |-> data]

json_loads_lenient(text) ==
    [ok |-> TRUE, is_dict |-> text.form = "object", value |-> text.obj]

\* json.loads(text): ok is FALSE when it raises json.JSONDecodeError
json_loads(text) ==
    IF text.form = "garbage"
    THEN [ok |-> FALSE, is_dict |-> FALSE, value |-> text.obj]
    ELSE [ok |-> TRUE, is_dict |-> text.form = "object", value |-> text.obj]

\* a JSON value that is a list: not hashable, and equal to no string
ListValue == "[list]"
Hashable(v) == v /= ListValue

(***************************************************************************)
(* Driver calls and the executors of src/actions.py                        *)
(***************************************************************************)
Call(op, by, sel, text, nums) ==
    [op |-> op, by |-> by, sel |-> sel, text |-> text, nums |-> nums]

\* what an executor does when no driver call fails: the calls it makes, in
\* order, and the Python exception it raises after them ("" when it returns)
Plan(calls, exc) == [calls |-> calls, exc |-> exc]

BoundsError == "ValueError: bounds"
SleepError == "sleep length must be non-negative"
KeyErrorOf(k) == "'" \o k \o "'"

FocusedQuery == "//*[@focused='true']"

process_web_click_bounds_first(data) ==
    IF "bounds" \in DOMAIN data
    THEN LET r == parse_bounds(data["bounds"])
         IN  IF r.ok
             THEN Plan(<<Call("execute_script", "point", "elementFromPoint.click",
                              "", CenterOf(r.rect))>>, "")
             ELSE Plan(<<>>, BoundsError)
    ELSE IF "xpath" \in DOMAIN data
    THEN Plan(<<Call("until_clickable", "xpath", data["xpath"], "", <<WebWait>>),
                Call("click", "xpath", data["xpath"], "", <<>>)>>, "")
    ELSE IF "css" \in DOMAIN data
    THEN Plan(<<Call("until_clickable", "css", data["css"], "", <<WebWait>>),
                Call("click", "css", data["css"], "", <<>>)>>, "")
    ELSE Plan(<<>>, "")

process_web_click(data) ==
    IF "xpath" \in DOMAIN data
    THEN Plan(<<Call("until_clickable", "xpath", data["xpath"], "", <<WebWait>>),
                Call("click", "xpath", data["xpath"], "", <<>>)>>, "")
    ELSE IF "css" \in DOMAIN data
    THEN Plan(<<Call("until_clickable", "css", data["css"], "", <<WebWait>>),
                Call("click", "css", data["css"], "", <<>>)>>, "")
    ELSE IF "bounds" \in DOMAIN data
    THEN LET r == parse_bounds(data["bounds"])
         IN  IF r.ok
             THEN Plan(<<Call("execute_script", "point", "elementFromPoint.click",
                              "", CenterOf(r.rect))>>, "")
             ELSE Plan(<<>>, BoundsError)
    ELSE Plan(<<>>, "")

process_mobile_tap(data) ==
    IF "bounds" \in DOMAIN data
    THEN LET r == parse_bounds(data["bounds"])
         IN  IF r.ok
             THEN Plan(<<Call("tap", "point", "", "", CenterOf(r.rect))>>, "")
             ELSE Plan(<<>>, BoundsError)
    ELSE IF "xpath" \in DOMAIN data
    THEN Plan(<<Call("find_element", "xpath", data["xpath"], "", <<>>),
                Call("click", "xpath", data["xpath"], "", <<>>)>>, "")
    ELSE Plan(<<>>, "")

\* element.send_keys(data["value"]) after the calls before it
SendKeysAfter(before, data, by, sel) ==
    IF "value" \in DOMAIN data
    THEN Plan(before \o <<Call("send_keys", by, sel, data["value"], <<>>)>>, "")
    ELSE Plan(before, KeyErrorOf("value"))

process_web_input(data) ==
    IF "xpath" \in DOMAIN data
    THEN SendKeysAfter(
             <<Call("until_present", "xpath", data["xpath"], "", <<WebWait>>),
               Call("clear", "xpath", data["xpath"], "", <<>>)>>,
             data, "xpath", data["xpath"])
    ELSE IF "css" \in DOMAIN data
    THEN SendKeysAfter(
             <<Call("until_present", "css", data["css"], "", <<WebWait>>),
               Call("clear", "css", data["css"], "", <<>>)>>,
             data, "css", data["css"])
    ELSE Plan(<<>>, "")

\* try: driver.hide_keyboard() except Exception: pass, after the text is sent
ThenHideKeyboard(plan) ==
    IF plan.exc = ""
    THEN Plan(plan.calls \o <<Call("hide_keyboard", "", "", "", <<>>)>>, "")
    ELSE plan

process_mobile_input(data) ==
    IF "bounds" \in DOMAIN data
    THEN LET r == parse_bounds(data["bounds"])
         IN  IF r.ok
             THEN ThenHideKeyboard(SendKeysAfter(
                      <<Call("tap", "point", "", "", CenterOf(r.rect)),
                        Call("find_element", "xpath", FocusedQuery, "", <<>>)>>,
                      data, "xpath", FocusedQuery))
             ELSE Plan(<<>>, BoundsError)
    ELSE IF "xpath" \in DOMAIN data
    THEN ThenHideKeyboard(SendKeysAfter(
             <<Call("find_element", "xpath", data["xpath"], "", <<>>),
               Call("click", "xpath", data["xpath"], "", <<>>),
               Call("find_element", "xpath", FocusedQuery, "", <<>>)>>,
             data, "xpath", FocusedQuery))
    ELSE Plan(<<>>, "")

process_web_scroll(data) ==
    LET scroll_x == Get(data, "swipe_end_x", 0) - Get(data, "swipe_start_x", 0)
        scroll_y == Get(data, "swipe_end_y", 0) - Get(data, "swipe_start_y", 0)
    IN  Plan(<<Call("execute_script", "", "window.scrollBy", "",
                    <<scroll_x, scroll_y>>)>>, "")

SwipeKeys == <<"swipe_start_x", "swipe_start_y", "swipe_end_x", "swipe_end_y">>

process_mobile_swipe_no_sleep(data) ==
    LET missing == {i \in 1..4 : SwipeKeys[i] \notin DOMAIN data}
    IN  IF missing /= {}
        THEN Plan(<<>>, KeyErrorOf(SwipeKeys[CHOOSE i \in missing :
                                             \A j \in missing : i <= j]))
        ELSE Plan(<<Call("swipe", "point", "", "",
                         <<data["swipe_start_x"], data["swipe_start_y"],
                           data["swipe_end_x"], data["swipe_end_y"],
                           Get(data, "duration", DefaultDuration)>>)>>, "")

process_mobile_swipe(data) ==
    LET missing == {i \in 1..4 : SwipeKeys[i] \notin DOMAIN data}
    IN  IF missing /= {}
        THEN Plan(<<>>, KeyErrorOf(SwipeKeys[CHOOSE i \in missing :
                                             \A j \in missing : i <= j]))
        ELSE LET duration == Get(data, "duration", DefaultDuration)
                 swipe == Call("swipe", "point", "", "",
                               <<data["swipe_start_x"], data["swipe_start_y"],
                                 data["swipe_end_x"], data["swipe_end_y"],
                                 duration>>)
             IN  IF duration >= 0
                 THEN Plan(<<swipe, Call("sleep", "", "", "", <<duration>>)>>, "")
                 ELSE Plan(<<swipe>>, SleepError)

process_wait_swipe_default(data) ==
    LET timeout == Get(data, "timeout", DefaultDuration)
    IN  IF timeout >= 0
        THEN Plan(<<Call("sleep", "", "", "", <<timeout>>)>>, "")
        ELSE Plan(<<>>, SleepError)

\* sleep(data.get("timeout", 5000) / 1000)
process_wait(data) ==
    LET timeout == Get(data, "timeout", DefaultTimeout)
    IN  IF timeout >= 0
        THEN Plan(<<Call("sleep", "", "", "", <<timeout>>)>>, "")
        ELSE Plan(<<>>, SleepError)

KnownKinds == {"tap", "input", "swipe", "wait", "finish", "error"}
TerminalKindsFinishOnly == {"finish"}
\* if data["action"] in {"error", "finish"}
TerminalKinds == {"error", "finish"}
ExecutedKinds == {"tap", "input", "swipe", "wait"}

ExecutorPlanDefaultTap(data, platform) ==
    CASE data["action"] = "input" ->
             IF platform = "web" THEN process_web_input(data)
             ELSE process_mobile_input(data)
      [] data["action"] = "swipe" ->
             IF platform = "web" THEN process_web_scroll(data)
             ELSE process_mobile_swipe(data)
      [] data["action"] = "wait" -> process_wait(data)
      [] OTHER ->
             IF platform = "web" THEN process_web_click(data)
             ELSE process_mobile_tap(data)

\* the try block of process_next_action, routed by kind and platform
ExecutorPlan(data, platform) ==
    CASE data["action"] = "tap" ->
             IF platform = "web" THEN process_web_click(data)
             ELSE process_mobile_tap(data)
      [] data["action"] = "input" ->
             IF platform = "web" THEN process_web_input(data)
             ELSE process_mobile_input(data)
      [] data["action"] = "swipe" ->
             IF platform = "web" THEN process_web_scroll(data)
             ELSE process_mobile_swipe(data)
      [] data["action"] = "wait" -> process_wait(data)
      [] OTHER -> Plan(<<>>, "")

\* a call that goes to the driver session (sleep does not)
IsDriverCall(c) == c.op /= "sleep"

DriverError(c) ==
    CASE c.op \in {"until_clickable", "until_present"} -> "timeout"
      [] c.op = "find_element" -> "no such element"
      [] OTHER -> "webdriver error"

RunThrough(plan, fail) ==
    IF fail \in 1..Len(plan.calls) /\ IsDriverCall(plan.calls[fail])
    THEN IF plan.calls[fail].op = "hide_keyboard"
         THEN [calls |-> plan.calls, exc |-> plan.exc, failed |-> fail,
               swallowed |-> TRUE]
         ELSE [calls |-> plan.calls,
               exc |-> DriverError(plan.calls[fail]), failed |-> fail,
               swallowed |-> FALSE]
    ELSE [calls |-> plan.calls, exc |-> plan.exc, failed |-> 0,
          swallowed |-> FALSE]

RunHideKeyboardFatal(plan, fail) ==
    IF fail \in 1..Len(plan.calls) /\ IsDriverCall(plan.calls[fail])
    THEN [calls |-> SubSeq(plan.calls, 1, fail),
          exc |-> DriverError(plan.calls[fail]), failed |-> fail,
          swallowed |-> FALSE]
    ELSE [calls |-> plan.calls, exc |-> plan.exc, failed |-> 0,
          swallowed |-> FALSE]

\* The plan run against a driver whose call number `fail` raises (0: none
\* does).  calls: the calls attempted, the failing one last; exc: the
\* exception that leaves the executor; swallowed: hide_keyboard raised and
\* the exception was passed over.
Run(plan, fail) ==
    IF fail \in 1..Len(plan.calls) /\ IsDriverCall(plan.calls[fail])
    THEN IF plan.calls[fail].op = "hide_keyboard"
         THEN [calls |-> plan.calls, exc |-> plan.exc, failed |-> fail,
               swallowed |-> TRUE]
         ELSE [calls |-> SubSeq(plan.calls, 1, fail),
               exc |-> DriverError(plan.calls[fail]), failed |-> fail,
               swallowed |-> FALSE]
    ELSE [calls |-> plan.calls, exc |-> plan.exc, failed |-> 0,
          swallowed |-> FALSE]

ErrorResult(msg) == "error: " \o msg

(***************************************************************************)
(* State capture: take_page_source and take_screenshot                     *)
(***************************************************************************)
\* a path f"{folder}/{name}.{ext}"; the folder is the task's, the name is
\* step_<name>
Path(folder, name, ext) == [folder |-> folder, name |-> name, ext |-> ext]
\* Python's None where a path is expected
None == [folder |-> 0, name |-> 0 - 1, ext |-> "None"]

\* what the capture collaborator does in one capture: both return, reading
\* the page source raises, or saving the screenshot raises
CaptureOutcomes == {"ok", "source raises", "screenshot raises"}

take_page_source_step_0(folder, name, platform) == Path(folder, 0, "yaml")

take_page_source(folder, name, platform) == Path(folder, name, "yaml")
take_screenshot(folder, name, platform) == Path(folder, name, "jpg")

\* the files the two write: the source as .html (web) or .xml (native) and
\* as .yaml, the screenshot as .png and as .jpg
SourceFiles(folder, name, platform) ==
    {Path(folder, name, IF platform = "web" THEN "html" ELSE "xml"),
     take_page_source(folder, name, platform)}
ScreenshotFiles(folder, name, platform) ==
    {Path(folder, name, "png"), take_screenshot(folder, name, platform)}

\* the files one capture leaves behind
CaptureWrites(folder, name, platform, cap) ==
    CASE cap = "source raises" -> {}
      [] cap = "screenshot raises" -> SourceFiles(folder, name, platform)
      [] OTHER -> SourceFiles(folder, name, platform)
                  \cup ScreenshotFiles(folder, name, platform)

\* f"{task_folder}/step_{step}.json"
StepFile(folder, n) == Path(folder, n, "json")

\* a file of the task folder and the step whose code wrote it
WrittenBy(paths, n) == {[path |-> f, step |-> n] : f \in paths}

\* take_page_source(...) then take_screenshot(...): neither catches what
\* the driver or the file system raises
Capture(folder, name, platform, cap) ==
    LET src == Call("page_source", "", "", "", <<>>)
        shot == Call("save_screenshot", "", "", "", <<>>)
    IN  CASE cap = "source raises" ->
                 [raised |-> "capture", calls |-> <<src>>,
                  page_source_file |-> None, screenshot_file |-> None]
          [] cap = "screenshot raises" ->
                 [raised |-> "capture", calls |-> <<src, shot>>,
                  page_source_file |-> take_page_source(folder, name, platform),
                  screenshot_file |-> None]
          [] OTHER ->
                 [raised |-> "", calls |-> <<src, shot>>,
                  page_source_file |-> take_page_source(folder, name, platform),
                  screenshot_file |-> take_screenshot(folder, name, platform)]

(***************************************************************************)
(* process_next_action (src/actions.py)                                    *)
(***************************************************************************)
NoRun == [calls |-> <<>>, exc |-> "", failed |-> 0, swallowed |-> FALSE]

InvalidJsonNotError ==
    json_dumps([action |-> "invalid", result |-> "Invalid JSON"])

\* '{"action": "error", "result": "Invalid JSON"}'
InvalidJson == json_dumps([action |-> "error", result |-> "Invalid JSON"])

\* What one call of process_next_action does.
\*   raised: the exception that leaves it ("" when it returns);
\*   page_source_file, screenshot_file, action_result: the tuple it returns;
\*   run: the executor's calls and exception; captures: the capture calls;
\*   calls: all its calls in the order it makes them.
Outcome(raised, psf, ssf, result, run, captures) ==
    [raised |-> raised, page_source_file |-> psf, screenshot_file |-> ssf,
     action_result |-> result, run |-> run, captures |-> captures,
     calls |-> run.calls \o captures]

ResultIgnoringException(data, run) ==
    IF data["action"] \in ExecutedKinds THEN "success" ELSE "unknown action"

\* the result the try block leaves in data["result"]
ResultOf(data, run) ==
    IF run.exc /= "" THEN ErrorResult(run.exc)
    ELSE IF data["action"] \in ExecutedKinds THEN "success"
    ELSE "unknown action"

\* the rest of process_next_action once data["result"] is set
CaptureAndReturn(data, run, folder, name, platform, cap) ==
    LET c == Capture(folder, name, platform, cap)
    IN  IF c.raised /= ""
        THEN Outcome(c.raised, None, None, json_dumps(data), run, c.calls)
        ELSE Outcome("", c.page_source_file, c.screenshot_file,
                     json_dumps(data), run, c.calls)

set_result_fresh(data, result) ==
    [k \in {"action", "result"} |-> IF k = "result" THEN result ELSE data[k]]

\* data["result"] = result
set_result(data, result) == With(data, "result", result)

process_next_action(action, folder, name, platform, fail, cap) ==
    LET parsed == json_loads(action)
        data == parsed.value
    IN  IF ~parsed.ok
        THEN Outcome("", None, None, InvalidJson, NoRun, <<>>)
        ELSE IF ~parsed.is_dict
        THEN Outcome("TypeError", None, None, action, NoRun, <<>>)
        ELSE IF "action" \notin DOMAIN data
        THEN Outcome("KeyError", None, None, action, NoRun, <<>>)
        ELSE IF ~Hashable(data["action"])
        THEN Outcome("TypeError", None, None, action, NoRun, <<>>)
        ELSE IF data["action"] \in TerminalKinds
        THEN CaptureAndReturn(set_result(data, "success"), NoRun,
                              folder, name, platform, cap)
        ELSE LET run == Run(ExecutorPlan(data, platform), fail)
             IN  CaptureAndReturn(set_result(data, ResultOf(data, run)),
                                  run, folder, name, platform, cap)

\* the driver calls the executor of this instruction would make
PlannedCalls(action, platform) ==
    LET parsed == json_loads(action)
    IN  IF parsed.ok /\ parsed.is_dict /\ "action" \in DOMAIN parsed.value
        THEN ExecutorPlan(parsed.value, platform).calls
        ELSE <<>>

(***************************************************************************)
(* The oracle: the instructions it may return                              *)
(***************************************************************************)
GoodBounds == <<"[", "0", ",", "0", "]", "[", "1", "1", ",", "9", "]">>
EvenBounds == <<"[", "0", ",", "0", "]", "[", "1", "0", ",", "1", "0", "]">>
BadBounds == <<"[", "1", ",", "2", "]", "[", "3">>

LocatorKeys == {"xpath", "css", "bounds"}
LocatorValue(k) ==
    CASE k = "xpath" -> "//button"
      [] k = "css" -> "#submit"
      [] OTHER -> "none"

\* an object with the given action kind and the locator fields L
Located(kind, L) ==
    [k \in {"action"} \cup L |->
        IF k = "action" THEN kind
        ELSE IF k = "bounds" THEN GoodBounds
        ELSE LocatorValue(k)]

SwipeUp ==
    [action |-> "swipe", swipe_start_x |-> 100, swipe_start_y |-> 500,
     swipe_end_x |-> 100, swipe_end_y |-> 100]

Objects ==
    {Located("tap", L) : L \in SUBSET LocatorKeys}
    \cup {With(Located("tap", {}), "bounds", BadBounds),
          With(Located("tap", {}), "bounds", EvenBounds)}
    \cup {With(Located("input", L), "value", "hello") : L \in SUBSET LocatorKeys}
    \cup {Located("input", {"xpath"})}
    \cup {SwipeUp, With(SwipeUp, "duration", 200),
          With(SwipeUp, "xpath", LocatorValue("xpath")),
          [action |-> "swipe", swipe_start_x |-> 100, swipe_start_y |-> 500,
           swipe_end_x |-> 100]}
    \cup {[action |-> "wait"], [action |-> "wait", timeout |-> 100],
          [action |-> "wait", timeout |-> 0 - 1]}
    \cup {[action |-> "finish"],
          [action |-> "error", reason |-> "API call failed"]}
    \cup {Located("click", {"xpath"}), [action |-> ListValue],
          [value |-> "hello"]}

Instructions == {json_dumps(o) : o \in Objects} \cup {Garbage, Scalar}

\* the instruction a patient oracle repeats: a wait, which is not terminal
Filler == json_dumps([action |-> "wait"])
Finish == json_dumps([action |-> "finish"])

\* The conversations explored for one task: `warmup` filler answers, then
\* MaxVaried answers drawn from Instructions, then finish.  The warmups are
\* none, all but the last step before the cap, and the whole run to the cap.
Warmups == {0, StepCap - 1, StepCap}

OracleAnswers(n, w) ==
    IF n <= w THEN {Filler}
    ELSE IF n <= w + MaxVaried THEN Instructions
    ELSE {Finish}

(***************************************************************************)
(* generate_next_action: the oracle boundary                               *)
(***************************************************************************)
\* what the try block of generate_next_action meets: a response whose JSON
\* body holds the text, a requests.exceptions.RequestException (connection
\* error, timeout, HTTP error status), or a body that is not JSON
Response(text) == [kind |-> "response", text |-> text]
RequestException == [kind |-> "RequestException", text |-> Garbage]
JSONDecodeError == [kind |-> "JSONDecodeError", text |-> Garbage]

OracleFailures == {"RequestException", "JSONDecodeError"}

\* the service is reached in the steps of the conversation that vary
ServiceOutcomes(n, w) ==
    {Response(a) : a \in OracleAnswers(n, w)}
    \cup (IF w < n /\ n <= w + MaxVaried
          THEN {RequestException, JSONDecodeError}
          ELSE {})

ApiCallFailed == json_dumps([action |-> "error", reason |-> "API call failed"])
InvalidJsonResponse ==
    json_dumps([action |-> "error", reason |-> "Invalid JSON response"])

generate_next_action_retry(service) ==
    IF service.kind = "response" THEN service.text ELSE Filler

generate_next_action(service) ==
    CASE service.kind = "RequestException" -> ApiCallFailed
      [] service.kind = "JSONDecodeError" -> InvalidJsonResponse
      [] OTHER -> service.text

(***************************************************************************)
(* PlatformDetector.detect_platform on the markers the page source holds   *)
(***************************************************************************)
Markers == {"<html", "<!doctype html", "XCUIElementType", "android", "hierarchy"}

\* the page sources explored: those holding at most two of the markers
PageSources == {m \in SUBSET Markers : Cardinality(m) <= 2}

detect_platform(page_source) ==
    IF "<html" \in page_source \/ "<!doctype html" \in page_source THEN "web"
    ELSE IF "XCUIElementType" \in page_source THEN "ios"
    ELSE IF "android" \in page_source \/ "hierarchy" \in page_source
    THEN "android"
    ELSE "unknown"

\* detected_platform = PlatformDetector.detect_platform(initial_source),
\* over the page sources explored
DetectedPlatforms == {detect_platform(source) : source \in PageSources}

(***************************************************************************)
(* The step loop: __main__ of src/ai-testing-tool.py                       *)
(***************************************************************************)
VARIABLES
    pc,                 \* where the main thread is
    task,               \* number of the task the for loop is at (0: none yet)
    detected_platform,
    page_source_file,
    screenshot_file,
    history_actions,
    step,
    next_action,        \* the text the oracle returned for this step
    action_result,      \* the outcome text process_next_action returned
    last,               \* what the last call of process_next_action that
                        \* returned did
    requests,           \* oracle requests made for this task
    dispatches,         \* calls of process_next_action made for this task
    fault,              \* the exception that ended the main thread ("" if
                        \* none)
    warmup,             \* the oracle's conversation for this task
    oracle,             \* what the service did in the last oracle request
    session,            \* the driver's session: "open" or "quit"
    keep_alive,         \* where the keep-alive thread is
    in_flight,          \* the threads that have a command in flight at the
                        \* driver
    files,              \* the step files written in the folder of the task
                        \* that started last, each with the step that wrote
                        \* it
    oracle_history,     \* the history_actions the last oracle request was
                        \* given
    bounds_arg,         \* the argument of a call of parse_bounds on its own
    bounds_ret          \* what that call did

vars == <<pc, task, detected_platform, page_source_file, screenshot_file,
          history_actions, step, next_action, action_result, last, requests,
          dispatches, fault, warmup, oracle, session, keep_alive, in_flight,
          files, oracle_history, bounds_arg, bounds_ret>>

\* the variables of a function called on its own
call_vars == <<bounds_arg, bounds_ret>>

\* the variables the keep-alive thread writes
thread_vars == <<keep_alive, in_flight>>

\* the value of a text variable that is not assigned yet
Unbound == [form |-> "unbound", obj |-> [text |-> ""]]

NoOutcome == Outcome("", None, None, Unbound, NoRun, <<>>)

\* bounds_ret before the call
NotCalled == [called |-> FALSE, ok |-> FALSE, rect |-> NoRect]

Init ==
    /\ pc = "for"
    /\ task = 0
    /\ detected_platform = "unknown"
    /\ page_source_file = None
    /\ screenshot_file = None
    /\ history_actions = <<>>
    /\ step = 0
    /\ next_action = Unbound
    /\ action_result = Unbound
    /\ last = NoOutcome
    /\ requests = 0
    /\ dispatches = 0
    /\ fault = ""
    /\ warmup = 0
    /\ oracle = ""
    /\ session = "open"
    /\ keep_alive = "sleeping"
    /\ in_flight = {}
    /\ files = {}
    /\ oracle_history = <<>>
    /\ bounds_arg = <<>>
    /\ bounds_ret = NotCalled

\* the top of the while loop: the test, and step += 1 when it passes
LoopConditionNoCap(psf, n) == psf /= None

\* while page_source_file is not None and step < 50
LoopCondition(psf, n) == psf /= None /\ n < StepCap

WhileTopNoIncrement(psf, n) ==
    IF LoopCondition(psf, n)
    THEN [pc |-> "request", step |-> n]
    ELSE [pc |-> "for", step |-> n]

WhileTopCapIsFailure(psf, n) ==
    IF LoopCondition(psf, n)
    THEN [pc |-> "request", step |-> n + 1]
    ELSE IF psf /= None
    THEN [pc |-> "crashed", step |-> n]
    ELSE [pc |-> "for", step |-> n]

WhileTop(psf, n) ==
    IF LoopCondition(psf, n)
    THEN [pc |-> "request", step |-> n + 1]
    ELSE [pc |-> "for", step |-> n]

NewTaskHistoryCarried(previous) == previous

\* history_actions = [] at the start of a task
NewTaskHistory(previous) == <<>>

\* for task in tasks, a task that is not skipped: detect the platform,
\* capture step_0, history_actions = [], step = 0, and enter the loop
StartTask ==
    /\ pc = "for"
    /\ UNCHANGED call_vars
    /\ task < MaxTasks
    /\ task' = task + 1
    /\ \E platform \in DetectedPlatforms, cap \in CaptureOutcomes,
          w \in Warmups :
        LET c == Capture(task + 1, 0, platform, cap)
            top == WhileTop(c.page_source_file, 0)
        IN  IF c.raised /= ""
            THEN /\ pc' = "crashed"
                 /\ fault' = "initial capture"
                 /\ UNCHANGED <<detected_platform, page_source_file,
                                screenshot_file, history_actions, step,
                                warmup, requests, dispatches, next_action,
                                action_result, last, oracle,
                                oracle_history>>
                 \* the folder of the task is new
                 /\ files' = WrittenBy(CaptureWrites(task + 1, 0, platform,
                                                     cap), 0)
            ELSE /\ pc' = top.pc
                 /\ detected_platform' = platform
                 /\ page_source_file' = c.page_source_file
                 /\ screenshot_file' = c.screenshot_file
                 /\ history_actions' = NewTaskHistory(history_actions)
                 /\ step' = top.step
                 /\ warmup' = w
                 /\ requests' = 0
                 /\ dispatches' = 0
                 \* the values the previous task left in these are never
                 \* read again
                 /\ next_action' = Unbound
                 /\ action_result' = Unbound
                 /\ last' = NoOutcome
                 /\ oracle' = ""
                 /\ oracle_history' = <<>>
                 /\ files' = WrittenBy(CaptureWrites(task + 1, 0, platform,
                                                     cap), 0)
                 /\ UNCHANGED fault
    /\ UNCHANGED <<session, thread_vars>>

\* for task in tasks: if skip: continue
SkipTask ==
    /\ pc = "for"
    /\ UNCHANGED call_vars
    /\ task < MaxTasks
    /\ task' = task + 1
    /\ UNCHANGED <<pc, detected_platform, page_source_file, screenshot_file,
                   history_actions, step, next_action, action_result, last,
                   requests, dispatches, fault, warmup, oracle, session,
                   thread_vars, files, oracle_history>>

\* next_action = generate_next_action(...)
RequestInstruction ==
    /\ pc = "request"
    /\ UNCHANGED call_vars
    /\ \E service \in ServiceOutcomes(step, warmup) :
        /\ next_action' = generate_next_action(service)
        /\ oracle' = service.kind
    /\ oracle_history' = history_actions
    /\ requests' = requests + 1
    /\ pc' = "dispatch"
    /\ UNCHANGED <<task, detected_platform, page_source_file, screenshot_file,
                   history_actions, step, action_result, last, dispatches,
                   fault, warmup, session, thread_vars, files>>

\* generate_next_action raises: reading the screenshot file fails, or the
\* service answers JSON that is not an object
OracleRaises ==
    /\ pc = "request"
    /\ UNCHANGED call_vars
    /\ oracle_history' = history_actions
    /\ requests' = requests + 1
    /\ pc' = "crashed"
    /\ fault' = "oracle"
    /\ UNCHANGED <<task, detected_platform, page_source_file, screenshot_file,
                   history_actions, step, next_action, action_result, last,
                   dispatches, warmup, oracle, session, thread_vars, files>>

\* page_source_file, screenshot_file, action_result = process_next_action(...)
Dispatch ==
    /\ pc = "dispatch"
    /\ UNCHANGED call_vars
    /\ \E fail \in 0..Len(PlannedCalls(next_action, detected_platform)),
          cap \in CaptureOutcomes :
        LET o == process_next_action(next_action, task, step,
                                     detected_platform, fail, cap)
        IN  /\ files' = IF o.captures = <<>> THEN files
                         ELSE files \cup
                              WrittenBy(CaptureWrites(task, step,
                                            detected_platform, cap), step)
            /\ IF o.raised /= ""
               THEN /\ pc' = "crashed"
                    /\ fault' = o.raised
                    /\ UNCHANGED <<page_source_file, screenshot_file,
                                   action_result, last>>
               ELSE /\ pc' = "record"
                    /\ last' = o
                    /\ page_source_file' = o.page_source_file
                    /\ screenshot_file' = o.screenshot_file
                    /\ action_result' = o.action_result
                    /\ UNCHANGED fault
    /\ dispatches' = dispatches + 1
    /\ in_flight' = in_flight \ {"main"}
    /\ UNCHANGED <<task, detected_platform, history_actions, step, next_action,
                   requests, warmup, oracle, session, keep_alive,
                   oracle_history>>

history_insert(history, result) == <<result>> \o history

\* history_actions.append(action_result)
history_append(history, result) == Append(history, result)

BreaksNever(result) == FALSE

BreaksOnErrorOnly(result) == json_loads(result).value["action"] = "error"

\* result_data = json.loads(action_result);
\* result_data["action"] in ["finish", "error"]
Breaks(result) == json_loads(result).value["action"] \in {"finish", "error"}

\* write the step file, append to the history, break on a terminal action,
\* else go back to the top of the while loop
Record ==
    /\ pc = "record"
    /\ UNCHANGED call_vars
    /\ files' = files \cup WrittenBy({StepFile(task, step)}, step)
    /\ history_actions' = history_append(history_actions, action_result)
    /\ LET top == WhileTop(page_source_file, step)
       IN  IF Breaks(action_result)
           THEN pc' = "for" /\ UNCHANGED step
           ELSE pc' = top.pc /\ step' = top.step
    /\ UNCHANGED <<task, detected_platform, page_source_file, screenshot_file,
                   next_action, action_result, last, requests, dispatches,
                   fault, warmup, oracle, session, thread_vars,
                   oracle_history>>

\* the task list is exhausted: driver.quit() and the main thread ends; the
\* variables of the main thread are gone with it
Quit ==
    /\ pc = "for"
    /\ UNCHANGED call_vars
    /\ pc' = "done"
    /\ task' = 0
    /\ detected_platform' = "unknown"
    /\ page_source_file' = None
    /\ screenshot_file' = None
    /\ history_actions' = <<>>
    /\ step' = 0
    /\ next_action' = Unbound
    /\ action_result' = Unbound
    /\ last' = NoOutcome
    /\ requests' = 0
    /\ dispatches' = 0
    /\ warmup' = 0
    /\ oracle' = ""
    /\ session' = "quit"
    /\ files' = {}
    /\ oracle_history' = <<>>
    /\ UNCHANGED <<fault, thread_vars>>

Next ==
    \/ StartTask
    \/ SkipTask
    \/ RequestInstruction
    \/ OracleRaises
    \/ Dispatch
    \/ Record
    \/ Quit

\* the main thread alone; the keep-alive thread reads and writes none of
\* the main thread's variables
Spec == Init /\ [][Next]_vars

(***************************************************************************)
(* The keep-alive thread: keep_driver_live, started before the for loop    *)
(***************************************************************************)
main_vars == <<pc, task, detected_platform, page_source_file, screenshot_file,
               history_actions, step, next_action, action_result, last,
               requests, dispatches, fault, warmup, oracle, session, files,
               oracle_history>>

\* inside process_next_action the main thread has sent a command to the
\* driver (an executor's call or the page source of the capture) and its
\* answer is not back yet; Dispatch is the rest of the call
DriverCommandSent ==
    /\ pc = "dispatch"
    /\ "main" \notin in_flight
    /\ process_next_action(next_action, task, step, detected_platform, 0,
                           "ok").captures /= <<>>
    /\ in_flight' = in_flight \cup {"main"}
    /\ UNCHANGED <<main_vars, keep_alive, call_vars>>

\* while driver: driver.current_url or driver.page_source is sent
KeepAlivePoll ==
    /\ keep_alive = "sleeping"
    /\ keep_alive' = "polling"
    /\ in_flight' = in_flight \cup {"keepalive"}
    /\ UNCHANGED <<main_vars, call_vars>>

\* the poll returns: sleep(10) and back to the loop test, which is true as
\* long as the driver object exists
KeepAliveReturns ==
    /\ keep_alive = "polling"
    /\ session = "open"
    /\ keep_alive' = "sleeping"
    /\ in_flight' = in_flight \ {"keepalive"}
    /\ UNCHANGED <<main_vars, call_vars>>

\* the poll raises (the session was quit, or the driver fails): the except
\* clause logs it and the thread ends
KeepAliveRaises ==
    /\ keep_alive = "polling"
    /\ keep_alive' = "ended"
    /\ in_flight' = in_flight \ {"keepalive"}
    /\ UNCHANGED <<main_vars, call_vars>>

keep_driver_live == KeepAlivePoll \/ KeepAliveReturns \/ KeepAliveRaises

NextKeepAlive ==
    \/ Next
    \/ DriverCommandSent
    \/ KeepAlivePoll
    \/ KeepAliveReturns
    \/ KeepAliveRaises

\* both threads, interleaved
SpecKeepAlive == Init /\ [][NextKeepAlive]_vars

(***************************************************************************)
(* parse_bounds called on its own, on bounds texts that are well formed    *)
(* or one edit away from well formed                                       *)
(***************************************************************************)
DigitChar(d) ==
    CASE d = 0 -> "0" [] d = 1 -> "1" [] d = 2 -> "2" [] d = 3 -> "3"
      [] d = 4 -> "4" [] d = 5 -> "5" [] d = 6 -> "6" [] d = 7 -> "7"
      [] d = 8 -> "8" [] d = 9 -> "9"

\* str(n) of an int n >= 0
RECURSIVE str(_)
str(n) ==
    IF n < 10 THEN <<DigitChar(n)>>
    ELSE str(n \div 10) \o <<DigitChar(n % 10)>>

\* the text "[l,t][r,b]" the page sources carry as a bounds attribute
FormatBounds(l, t, r, b) ==
    <<"[">> \o str(l) \o <<",">> \o str(t) \o <<"]", "[">>
        \o str(r) \o <<",">> \o str(b) \o <<"]">>

Coordinates == {0, 9, 11}

WellFormed ==
    {FormatBounds(l, t, r, b) : l \in Coordinates, t \in Coordinates,
                                r \in Coordinates, b \in Coordinates}

\* one character lost, or one character replaced
EditChars == {"[", "]", "(", ")", ",", " ", "-", "x", "1"}
Delete(s, i) == SubSeq(s, 1, i - 1) \o SubSeq(s, i + 1, Len(s))
Replace(s, i, c) == [s EXCEPT ![i] = c]
Edits(s) ==
    {Delete(s, i) : i \in 1..Len(s)}
    \cup {Replace(s, i, c) : i \in 1..Len(s), c \in EditChars}

BoundsTexts ==
    WellFormed \cup UNION {Edits(s) : s \in WellFormed} \cup {BadBounds}

InitBounds ==
    /\ pc = "parse_bounds"
    /\ bounds_arg \in BoundsTexts
    /\ bounds_ret = NotCalled
    /\ task = 0
    /\ detected_platform = "unknown"
    /\ page_source_file = None
    /\ screenshot_file = None
    /\ history_actions = <<>>
    /\ step = 0
    /\ next_action = Unbound
    /\ action_result = Unbound
    /\ last = NoOutcome
    /\ requests = 0
    /\ dispatches = 0
    /\ fault = ""
    /\ warmup = 0
    /\ oracle = ""
    /\ session = "open"
    /\ keep_alive = "sleeping"
    /\ in_flight = {}
    /\ files = {}
    /\ oracle_history = <<>>

\* parse_bounds(bounds_arg) returns a rectangle or raises
CallParseBounds ==
    /\ pc = "parse_bounds"
    /\ ~bounds_ret.called
    /\ LET r == parse_bounds(bounds_arg)
       IN  bounds_ret' = [called |-> TRUE, ok |-> r.ok, rect |-> r.rect]
    /\ UNCHANGED <<main_vars, thread_vars, bounds_arg>>

NextBounds == CallParseBounds

SpecBounds == InitBounds /\ [][NextBounds]_vars

(***************************************************************************)
(* Vocabulary of the properties                                            *)
(***************************************************************************)
IsObject(text) == text.form = "object"
\* the action kind an instruction or outcome text carries ("" when none)
KindOf(text) ==
    IF IsObject(text) /\ "action" \in DOMAIN text.obj THEN text.obj["action"]
    ELSE ""
\* the result an outcome text carries ("" when none)
ResultIn(text) ==
    IF IsObject(text) /\ "result" \in DOMAIN text.obj THEN text.obj["result"]
    ELSE ""

ExecutorMessages ==
    {"timeout", "no such element", "webdriver error", BoundsError, SleepError,
     KeyErrorOf("value")} \cup {KeyErrorOf(SwipeKeys[i]) : i \in 1..4}
IsErrorResult(r) == r \in {ErrorResult(m) : m \in ExecutorMessages}

\* the last record of the history, when there is one
HasRecords == Len(history_actions) > 0
LastRecord == history_actions[Len(history_actions)]

\* the main thread is inside the while loop of the current task
InLoop == pc \in {"request", "dispatch", "record"}
\* the while loop of the current task was left (by break or by its test)
LoopLeft == pc = "for" /\ task > 0

\* the locator strategy an executor run took: the `by` of its driver calls,
\* "point" also when the bounds it chose did not parse
StrategyOf(run) ==
    IF run.calls /= <<>> THEN run.calls[1].by
    ELSE IF run.exc = BoundsError THEN "point"
    ELSE "none"

\* the first locator present in the order xpath, css (web only), bounds
XpathFirst(data, platform) ==
    IF "xpath" \in DOMAIN data THEN "xpath"
    ELSE IF "css" \in DOMAIN data /\ platform = "web" THEN "css"
    ELSE IF "bounds" \in DOMAIN data THEN "point"
    ELSE "none"

\* the order of the code: the one above on web, bounds before xpath on the
\* native platforms, where css is not looked at
PerPlatformOrder(data, platform) ==
    IF platform = "web" THEN XpathFirst(data, platform)
    ELSE IF "bounds" \in DOMAIN data THEN "point"
    ELSE IF "xpath" \in DOMAIN data THEN "xpath"
    ELSE "none"

\* the locator fields an executor of this platform may use
EligibleLocators(platform) ==
    IF platform = "web" THEN {"xpath", "css", "bounds"} ELSE {"xpath", "bounds"}

\* an integer as the bounds attribute writes it: digits, with a minus sign
\* in front when negative
PlainInt(text) ==
    LET u == IF text /= <<>> /\ text[1] = "-" THEN Tail(text) ELSE text
    IN  u /= <<>> /\ \A i \in 1..Len(u) : u[i] \in Digits

PlainPair(text) ==
    LET parts == split(text, <<",">>)
    IN  Len(parts) = 2 /\ PlainInt(parts[1]) /\ PlainInt(parts[2])

\* the exact shape "[L,T][R,B]" with integers L, T, R, B
ExactShape(s) ==
    LET halves == split(s, <<"]", "[">>)
    IN  /\ Len(halves) = 2
        /\ halves[1] /= <<>> /\ halves[1][1] = "["
        /\ halves[2] /= <<>> /\ halves[2][Len(halves[2])] = "]"
        /\ PlainPair(DropFirst(halves[1]))
        /\ PlainPair(DropLast(halves[2]))

\* the exceptions that escape a step of the loop
StepFaults == {"oracle", "TypeError", "KeyError", "capture"}

\* the three platforms the tool is run on
KnownPlatforms == {"web", "android", "ios"}

\* the conditions under which the loop is to stop after the step recorded
C3_Stops ==
    \/ KindOf(action_result) \in {"finish", "error"}
    \/ step >= StepCap
    \/ page_source_file = None

\* a tap instruction was dispatched and the dispatcher returned
C9_Tap == pc = "record" /\ KindOf(next_action) = "tap"

(***************************************************************************)
(* C1: for one task the loop never makes more than 50 step records, oracle *)
(* requests or dispatches, even when every answer is non-terminal and      *)
(* every capture succeeds.                                                 *)
(***************************************************************************)
C1_AtMostCapRecords ==
    /\ Len(history_actions) <= StepCap
    /\ requests <= StepCap
    /\ dispatches <= StepCap
    /\ step <= StepCap

\* a task that ran to the cap on non-terminal answers only
C1_Witness ==
    /\ LoopLeft
    /\ Len(history_actions) = StepCap
    /\ requests = StepCap
    /\ \A i \in 1..StepCap : KindOf(history_actions[i]) = "wait"

(***************************************************************************)
(* C2: when the oracle returns {"action": "finish"} at step n, the loop    *)
(* ends at step n: the record of step n has result "success", it is the    *)
(* last record, and no further oracle request or dispatch is made for the  *)
(* task.                                                                   *)
(***************************************************************************)
C2_FinishEndsLoop ==
    /\ KindOf(next_action) = "finish" =>
          /\ pc \in {"dispatch", "record", "for", "crashed"}
          /\ requests = step
          /\ dispatches \in {step - 1, step}
          /\ pc \in {"record", "for"} =>
                 /\ dispatches = step
                 /\ KindOf(action_result) = "finish"
                 /\ ResultIn(action_result) = "success"
          /\ pc = "for" =>
                 /\ Len(history_actions) = step
                 /\ LastRecord = action_result
    /\ \A i \in 1..Len(history_actions) :
          KindOf(history_actions[i]) = "finish" =>
              /\ i = Len(history_actions)
              /\ ResultIn(history_actions[i]) = "success"
              /\ pc \in {"for", "crashed"}

\* a finish at the second step, recorded, and the loop left
C2_Witness ==
    /\ LoopLeft
    /\ Len(history_actions) = 2
    /\ next_action = Finish
    /\ KindOf(history_actions[2]) = "finish"
    /\ requests = 2

(***************************************************************************)
(* C3: after the record of step n the loop stops exactly when the outcome  *)
(* of step n is finish or error, or n has reached the cap 50, or the       *)
(* capture of step n returned no source artifact; otherwise it goes on to  *)
(* request instruction n+1; once left, the loop of a task is not entered   *)
(* again (the next entry is that of the next task, from step 1).           *)
(***************************************************************************)
C3_StopsExactlyWhen ==
    [][/\ pc = "record" =>
            /\ C3_Stops => pc' = "for" /\ step' = step
            /\ ~C3_Stops => pc' = "request" /\ step' = step + 1
            /\ history_actions' = Append(history_actions, action_result)
       /\ (pc = "for" /\ pc' /= "for") =>
            \/ pc' \in {"done", "crashed"}
            \/ pc' = "request" /\ task' = task + 1 /\ step' = 1
                 /\ history_actions' = <<>>]_vars

\* the loop left at the cap, the last outcome being a tap
C3_Witness ==
    /\ LoopLeft
    /\ step = StepCap
    /\ Len(history_actions) = StepCap
    /\ KindOf(LastRecord) = "tap"
    /\ page_source_file /= None

(***************************************************************************)
(* C4: an exception raised while a tap, input, swipe or wait executes is   *)
(* caught by the dispatcher and becomes the result "error: <message>";     *)
(* the state is captured, the step is recorded, and the loop goes on to    *)
(* the next step unless the cap is reached.                                *)
(***************************************************************************)
C4_ExecutorErrorsCaught ==
    /\ (pc = "record" /\ last.run.exc /= "") =>
          /\ KindOf(next_action) \in ExecutedKinds
          /\ ResultIn(action_result) = ErrorResult(last.run.exc)
          /\ IsErrorResult(ResultIn(action_result))
          /\ Len(last.captures) = 2
          /\ page_source_file = take_page_source(task, step, detected_platform)
          /\ Len(history_actions) = step - 1
    /\ (/\ LoopLeft
        /\ HasRecords
        /\ IsErrorResult(ResultIn(LastRecord))
        /\ KindOf(LastRecord) \in ExecutedKinds) =>
          /\ step = StepCap
          /\ Len(history_actions) = StepCap
    /\ (pc = "request" /\ step > 1) => Len(history_actions) = step - 1

\* a readiness wait timed out at step 1 and the loop is at step 2
C4_Witness ==
    /\ pc = "request"
    /\ step = 2
    /\ Len(history_actions) = 1
    /\ ResultIn(history_actions[1]) = ErrorResult("timeout")

(***************************************************************************)
(* C5: a tap or input instruction that carries none of the locator fields  *)
(* eligible on the platform never reaches a backend operation and gets a   *)
(* result of the form "error: ...", never "success".                       *)
(***************************************************************************)
C5_MissingLocatorIsError ==
    (/\ pc = "record"
     /\ detected_platform \in KnownPlatforms
     /\ KindOf(next_action) \in {"tap", "input"}
     /\ DOMAIN next_action.obj \cap EligibleLocators(detected_platform) = {}) =>
        /\ last.run.calls = <<>>
        /\ ResultIn(action_result)
               \notin {"success", "unknown action", "Invalid JSON", ""}

(***************************************************************************)
(* C6: an instruction whose action is a string outside the six known kinds *)
(* gets the result "unknown action", no executor call is made for it, and  *)
(* the loop goes on to the next step unless the cap is reached.            *)
(***************************************************************************)
C6_UnknownAction ==
    /\ (/\ pc = "record"
        /\ KindOf(next_action) \notin KnownKinds \cup {""}) =>
          /\ ResultIn(action_result) = "unknown action"
          /\ KindOf(action_result) = KindOf(next_action)
          /\ last.run.calls = <<>>
    /\ (LoopLeft /\ HasRecords /\ ResultIn(LastRecord) = "unknown action") =>
          step = StepCap

\* an unknown action at step 1 and the loop is at step 2
C6_Witness ==
    /\ pc = "request"
    /\ step = 2
    /\ KindOf(history_actions[1]) = "click"
    /\ ResultIn(history_actions[1]) = "unknown action"

(***************************************************************************)
(* C7: for text that does not parse as JSON the dispatcher returns the     *)
(* record {"action": "error", "result": "Invalid JSON"} with both artifact *)
(* refs None, makes no executor call and no capture, and the loop records  *)
(* that outcome without the process ending on an exception.                *)
(***************************************************************************)
C7_InvalidJson ==
    /\ (pc = "record" /\ next_action.form = "garbage") =>
          /\ action_result = InvalidJson
          /\ KindOf(action_result) = "error"
          /\ ResultIn(action_result) = "Invalid JSON"
          /\ last.run.calls = <<>>
          /\ last.captures = <<>>
          /\ page_source_file = None
          /\ screenshot_file = None
    /\ (pc = "for" /\ next_action.form = "garbage") =>
          /\ HasRecords
          /\ LastRecord = InvalidJson
          /\ Len(history_actions) = step
    /\ (pc = "crashed" /\ next_action.form = "garbage") =>
          fault = "initial capture"

\* the Invalid JSON record of step 1 in the history, the loop left
C7_Witness ==
    /\ LoopLeft
    /\ Len(history_actions) = 1
    /\ history_actions[1] = InvalidJson
    /\ page_source_file = None
    /\ screenshot_file = None

(***************************************************************************)
(* C8: a state capture that fails during a step is a checked end of the    *)
(* run (a None source ref, the records kept), never an exception that      *)
(* ends the process.                                                       *)
(***************************************************************************)
C8_CaptureFailureIsChecked == ~(pc = "crashed" /\ fault = "capture")

(***************************************************************************)
(* C9: a tap resolves its element by exactly one locator strategy.  As     *)
(* claimed: the first present of xpath, css (web only), bounds on every    *)
(* platform.  As the code has it: that order on web; on the native         *)
(* platforms bounds before xpath, css never.                               *)
(***************************************************************************)
C9_TapXpathFirst ==
    (C9_Tap /\ detected_platform \in KnownPlatforms) =>
        /\ StrategyOf(last.run) = XpathFirst(next_action.obj, detected_platform)
        /\ \A i \in 1..Len(last.run.calls) :
               last.run.calls[i].by = StrategyOf(last.run)

C9_TapPerPlatformOrder ==
    C9_Tap =>
        /\ StrategyOf(last.run)
               = PerPlatformOrder(next_action.obj, detected_platform)
        /\ \A i \in 1..Len(last.run.calls) :
               last.run.calls[i].by = StrategyOf(last.run)

\* an Android tap with xpath and bounds, tapped at the center of the bounds
C9_Witness ==
    /\ C9_Tap
    /\ detected_platform = "android"
    /\ {"xpath", "bounds"} \subseteq DOMAIN next_action.obj
    /\ Len(last.run.calls) = 1
    /\ last.run.calls[1].op = "tap"
    /\ last.run.calls[1].by = "point"

(***************************************************************************)
(* C10: an input resolves its target in the order xpath, css (web only),   *)
(* bounds; an input whose only locator is bounds acts on what the bounds   *)
(* address, on web as on the native platforms.                             *)
(***************************************************************************)
C10_BoundsOnlyInputActs ==
    (/\ pc = "record"
     /\ detected_platform \in KnownPlatforms
     /\ KindOf(next_action) = "input"
     /\ DOMAIN next_action.obj \cap LocatorKeys = {"bounds"}
     /\ "value" \in DOMAIN next_action.obj
     /\ last.run.failed = 0) =>
        /\ StrategyOf(last.run) = XpathFirst(next_action.obj, detected_platform)
        /\ last.run.calls /= <<>>
        /\ last.run.calls[1].by = "point"

(***************************************************************************)
(* C11: when the platform detected for a task is unknown, the run of that  *)
(* task halts: no oracle instruction is requested and no action is         *)
(* dispatched for it.                                                      *)
(***************************************************************************)
C11_UnknownPlatformHalts ==
    (task > 0 /\ detected_platform = "unknown") =>
        /\ requests = 0
        /\ dispatches = 0

(***************************************************************************)
(* C14: when the service fails in an oracle request (request exception or  *)
(* a body that is not JSON), generate_next_action returns an instruction   *)
(* with action "error" instead of raising; the step is recorded with       *)
(* action error, the loop ends there, and no further instruction is        *)
(* requested or dispatched for that task.                                  *)
(***************************************************************************)
C14_OracleFailureIsTerminal ==
    [][/\ (pc = "request" /\ oracle' \in OracleFailures) =>
              (pc' = "dispatch" /\ KindOf(next_action') = "error")
       /\ (pc = "record" /\ oracle \in OracleFailures) =>
              (/\ KindOf(action_result) = "error"
               /\ history_actions' = Append(history_actions, action_result)
               /\ pc' = "for")
       /\ (oracle \in OracleFailures) =>
              (/\ requests' <= requests
               /\ pc /= "dispatch" => dispatches' <= dispatches)]_vars

C14_Witness ==
    /\ LoopLeft
    /\ oracle \in OracleFailures
    /\ HasRecords
    /\ KindOf(LastRecord) = "error"
    /\ requests = Len(history_actions)
    /\ step < StepCap

(***************************************************************************)
(* C12: on every exit path of the run (the task list is done, or a fault   *)
(* escaped a step and ended the main thread) the keep-alive thread is      *)
(* brought to its end: once the run has ended, no poll of the session      *)
(* returns and sends the thread round its loop again.                      *)
(***************************************************************************)
C12_KeepAliveEndsWithRun ==
    [][(pc = "done" \/ (pc = "crashed" /\ fault \in StepFaults)) =>
           ~(keep_alive = "polling" /\ keep_alive' = "sleeping")]_vars

(***************************************************************************)
(* C13: the driver is used by one operation at a time: in no state do the  *)
(* main thread and the keep-alive thread both have a command in flight.    *)
(***************************************************************************)
C13_OneOperationAtATime == Cardinality(in_flight) <= 1

(***************************************************************************)
(* C15: steps are strictly sequential.  When the oracle request of step n  *)
(* starts, and until it is dispatched, the outcomes of steps 1..n-1 are    *)
(* written and appended to the history and the source and screenshot of    *)
(* step n-1 are stored; at most one instruction is in flight at any time.  *)
(***************************************************************************)
C15_StrictlySequential ==
    /\ requests - Len(history_actions) \in {0, 1}
    /\ requests - dispatches \in {0, 1}
    /\ (pc \in {"request", "dispatch"}) =>
           /\ step >= 1
           /\ Len(history_actions) = step - 1
           /\ dispatches = step - 1
           /\ requests = (IF pc = "request" THEN step - 1 ELSE step)
           /\ page_source_file = Path(task, step - 1, "yaml")
           /\ screenshot_file = Path(task, step - 1, "jpg")
           /\ [path |-> page_source_file, step |-> step - 1] \in files
           /\ [path |-> screenshot_file, step |-> step - 1] \in files
           /\ \A n \in 1..(step - 1) :
                  [path |-> StepFile(task, n), step |-> n] \in files
           /\ (step > 1) => (LastRecord = action_result)

C15_Witness ==
    /\ pc = "dispatch"
    /\ step = 2
    /\ KindOf(history_actions[1]) = "tap"
    /\ IsErrorResult(ResultIn(history_actions[1]))

(***************************************************************************)
(* C16: the history of a task is append-only and chronological: every step *)
(* inside the task leaves the earlier history as a prefix of the later     *)
(* one, the record appended for step n becomes element n and is that       *)
(* step's outcome, and the oracle request of step n is given exactly the   *)
(* outcomes of steps 1..n-1 in that order.                                 *)
(***************************************************************************)
C16_HistoryAppendOnly ==
    [][/\ (pc /= "for") =>
              (/\ Len(history_actions') >= Len(history_actions)
               /\ SubSeq(history_actions', 1, Len(history_actions))
                      = history_actions)
       /\ (pc = "record") =>
              (/\ Len(history_actions') = step
               /\ history_actions'[step] = action_result
               /\ KindOf(action_result) = KindOf(next_action)
                      \/ action_result = InvalidJson)
       /\ (pc = "request") =>
              (/\ oracle_history' = history_actions
               /\ Len(oracle_history') = step - 1)]_vars

C16_Witness ==
    /\ pc = "dispatch"
    /\ step = 2
    /\ Len(oracle_history) = 1
    /\ KindOf(oracle_history[1]) = "input"
    /\ ResultIn(oracle_history[1]) = "success"

(***************************************************************************)
(* C17: when the action kind of the parsed instruction is finish or error, *)
(* the dispatcher runs no executor (no click, tap, text entry, scroll,     *)
(* swipe or delay) and the outcome is the instruction with result          *)
(* "success" added.                                                        *)
(***************************************************************************)
C17_TerminalRunsNothing ==
    (pc = "record" /\ KindOf(next_action) \in {"finish", "error"}) =>
        /\ last.run = NoRun
        /\ action_result
               = json_dumps(With(next_action.obj, "result", "success"))

C17_Witness ==
    /\ pc = "record"
    /\ KindOf(next_action) = "error"
    /\ "reason" \in DOMAIN action_result.obj
    /\ ResultIn(action_result) = "success"
    /\ last.captures /= <<>>

(***************************************************************************)
(* C18: for an instruction that parses to a JSON object with an action     *)
(* key, the outcome the dispatcher returns is that object with the key     *)
(* result added: every other key keeps its value, no other key is added,   *)
(* and the result is one of the result strings, whichever it is.           *)
(***************************************************************************)
C18_OutcomeIsInstructionPlusResult ==
    (/\ pc = "record"
     /\ IsObject(next_action)
     /\ "action" \in DOMAIN next_action.obj) =>
        /\ IsObject(action_result)
        /\ DOMAIN action_result.obj = DOMAIN next_action.obj \cup {"result"}
        /\ \A k \in DOMAIN next_action.obj \ {"result"} :
               action_result.obj[k] = next_action.obj[k]
        /\ \/ ResultIn(action_result) \in {"success", "unknown action"}
           \/ IsErrorResult(ResultIn(action_result))

C18_Witness ==
    /\ pc = "record"
    /\ KindOf(next_action) = "input"
    /\ {"xpath", "css", "bounds", "value"} \subseteq DOMAIN action_result.obj
    /\ IsErrorResult(ResultIn(action_result))

(***************************************************************************)
(* C19: within a task the files written for a step (source, screenshot,    *)
(* outcome JSON) have paths keyed by the index of that step, the initial   *)
(* step 0 included, and no step writes to a path that another step of the  *)
(* task wrote.                                                             *)
(***************************************************************************)
C19_ArtifactPathsKeyedByStep ==
    [][\A f \in files' \ files :
           /\ f.path.name = f.step
           /\ \A g \in files : g.path = f.path => g.step = f.step]_vars

C19_Witness ==
    /\ [path |-> Path(task, 0, "yaml"), step |-> 0] \in files
    /\ [path |-> Path(task, 1, "html"), step |-> 1] \in files
    /\ [path |-> StepFile(task, 1), step |-> 1] \in files
    /\ [path |-> Path(task, 2, "jpg"), step |-> 2] \in files
    /\ [path |-> StepFile(task, 2), step |-> 2] \in files

(***************************************************************************)
(* C20: parse_bounds raises for every text that does not have the exact    *)
(* shape "[L,T][R,B]" with integers L, T, R, B: it returns a rectangle     *)
(* only for texts of that shape.                                           *)
(***************************************************************************)
C20_MalformedBoundsRaise ==
    (bounds_ret.called /\ bounds_ret.ok) => ExactShape(bounds_arg)

(***************************************************************************)
(* C21: parse_bounds is a left inverse of the formatter "[L,T][R,B]": for  *)
(* non-negative integers L, T, R, B with R >= L and B >= T, parsing the    *)
(* formatted text returns exactly (L, T, R, B).                            *)
(***************************************************************************)
C21_ParseInvertsFormat ==
    \A l \in Coordinates, t \in Coordinates,
       r \in Coordinates, b \in Coordinates :
        (/\ r >= l
         /\ b >= t
         /\ bounds_ret.called
         /\ bounds_arg = FormatBounds(l, t, r, b)) =>
            (bounds_ret.ok /\ bounds_ret.rect = <<l, t, r, b>>)

C21_Witness ==
    /\ bounds_ret.called
    /\ bounds_arg = FormatBounds(0, 9, 11, 11)
    /\ bounds_ret.ok
    /\ bounds_ret.rect = <<0, 9, 11, 11>>

(***************************************************************************)
(* C22: the point of a tap or click located by bounds is                   *)
(* (left + (right-left)/2, top + (bottom-top)/2) without truncation, on    *)
(* web and on the native platforms: twice its x is left + right and twice  *)
(* its y is top + bottom, so "[0,0][11,9]" gives (5.5, 4.5) and            *)
(* "[0,0][10,10]" gives (5, 5).  Coordinates are counted in halves.        *)
(***************************************************************************)
C22_CenterNotTruncated ==
    (/\ pc = "record"
     /\ KindOf(next_action) = "tap"
     /\ last.run.calls /= <<>>
     /\ last.run.calls[1].by = "point") =>
        LET rect == parse_bounds(next_action.obj["bounds"]).rect
            point == last.run.calls[1].nums
        IN  /\ point = <<rect[1] + rect[3], rect[2] + rect[4]>>
            /\ (next_action.obj["bounds"] = GoodBounds) => (point = <<11, 9>>)
            /\ (next_action.obj["bounds"] = EvenBounds) => (point = <<10, 10>>)

C22_Witness ==
    /\ pc = "record"
    /\ KindOf(next_action) = "tap"
    /\ detected_platform = "android"
    /\ last.run.calls /= <<>>
    /\ last.run.calls[1].op = "tap"
    /\ last.run.calls[1].nums = <<11, 9>>
    /\ ResultIn(action_result) = "success"

(***************************************************************************)
(* C23: on the native platforms a swipe instruction with its four          *)
(* coordinates issues exactly one swipe gesture from the start to the end  *)
(* point with the given duration, 500 ms when absent, then sleeps for      *)
(* that duration; the capture of the step comes only after the sleep, and  *)
(* locator fields of the instruction are not used.                         *)
(***************************************************************************)
C23_SwipeThenSleepThenCapture ==
    (/\ pc = "record"
     /\ detected_platform /= "web"
     /\ KindOf(next_action) = "swipe"
     /\ \A i \in 1..4 : SwipeKeys[i] \in DOMAIN next_action.obj
     /\ last.run.failed = 0) =>
        LET data == next_action.obj
            duration == IF "duration" \in DOMAIN data THEN data["duration"]
                        ELSE 500
        IN  /\ last.calls =
                   <<Call("swipe", "point", "", "",
                          <<data["swipe_start_x"], data["swipe_start_y"],
                            data["swipe_end_x"], data["swipe_end_y"],
                            duration>>),
                     Call("sleep", "", "", "", <<duration>>),
                     Call("page_source", "", "", "", <<>>),
                     Call("save_screenshot", "", "", "", <<>>)>>
            /\ ResultIn(action_result) = "success"

C23_Witness ==
    /\ pc = "record"
    /\ detected_platform = "ios"
    /\ KindOf(next_action) = "swipe"
    /\ "xpath" \in DOMAIN next_action.obj
    /\ Len(last.calls) = 4
    /\ last.calls[1].op = "swipe"
    /\ last.calls[2] = Call("sleep", "", "", "", <<500>>)

(***************************************************************************)
(* C24: on native input the keyboard dismissal is attempted only after the *)
(* text was sent, as the last call of the executor, and its failure is     *)
(* swallowed: when focusing and sending the text succeeded the outcome is  *)
(* "success" whether hide_keyboard returned or raised, and the loop is not *)
(* ended by it.                                                            *)
(***************************************************************************)
C24_KeyboardDismissalBestEffort ==
    (/\ pc = "record"
     /\ detected_platform /= "web"
     /\ KindOf(next_action) = "input") =>
        LET calls == last.run.calls
            n == Len(calls)
            sent == \E i \in 1..n :
                        calls[i].op = "send_keys" /\ last.run.failed /= i
            hidden == {i \in 1..n : calls[i].op = "hide_keyboard"}
        IN  /\ hidden = (IF sent THEN {n} ELSE {})
            /\ sent => /\ calls[n - 1].op = "send_keys"
                       /\ ResultIn(action_result) = "success"
                       /\ KindOf(action_result) = "input"
                       /\ page_source_file /= None
            /\ last.run.swallowed => (sent /\ last.run.failed = n)

C24_Witness ==
    /\ pc = "record"
    /\ detected_platform = "android"
    /\ KindOf(next_action) = "input"
    /\ last.run.swallowed
    /\ ResultIn(action_result) = "success"
    /\ step < StepCap

(***************************************************************************)
(* C26: native input runs its driver operations in a fixed order and stops *)
(* at the first that fails.  Located by bounds: tap the center, look up    *)
(* the focused element, send the text.  Located by xpath: find the         *)
(* element, click it, look up the focused element, send the text.  When    *)
(* operation k fails, the operations after k are not executed and the      *)
(* outcome is "error: ...".                                                *)
(***************************************************************************)
C26_NativeInputOrder ==
    (/\ pc = "record"
     /\ detected_platform /= "web"
     /\ KindOf(next_action) = "input"
     /\ "value" \in DOMAIN next_action.obj
     /\ DOMAIN next_action.obj \cap {"bounds", "xpath"} /= {}) =>
        LET data == next_action.obj
            focus == Call("find_element", "xpath", "//*[@focused='true']", "",
                          <<>>)
            send == Call("send_keys", "xpath", "//*[@focused='true']",
                         data["value"], <<>>)
            expected ==
                IF "bounds" \in DOMAIN data
                THEN <<Call("tap", "point", "", "", <<11, 9>>), focus, send>>
                ELSE <<Call("find_element", "xpath", data["xpath"], "", <<>>),
                       Call("click", "xpath", data["xpath"], "", <<>>),
                       focus, send>>
            k == last.run.failed
        IN  IF k \in 1..Len(expected)
            THEN /\ last.run.calls = SubSeq(expected, 1, k)
                 /\ IsErrorResult(ResultIn(action_result))
            ELSE /\ SubSeq(last.run.calls, 1, Len(expected)) = expected
                 /\ Len(last.run.calls) = Len(expected) + 1
                 /\ ResultIn(action_result) = "success"

C26_Witness ==
    /\ pc = "record"
    /\ detected_platform = "ios"
    /\ KindOf(next_action) = "input"
    /\ DOMAIN next_action.obj \cap LocatorKeys = {"xpath"}
    /\ last.run.failed = 3
    /\ Len(last.run.calls) = 3
    /\ ResultIn(action_result) = "error: no such element"

(***************************************************************************)
(* C27: a wait instruction does the same on web and on the native          *)
(* platforms: it sleeps for timeout milliseconds, 5000 when timeout is     *)
(* absent, makes no call into the driver session, and the result is        *)
(* "success".                                                              *)
(***************************************************************************)
C27_WaitIsPlainDelay ==
    (/\ pc = "record"
     /\ KindOf(next_action) = "wait"
     /\ ("timeout" \in DOMAIN next_action.obj
             => next_action.obj["timeout"] >= 0)) =>
        LET timeout == IF "timeout" \in DOMAIN next_action.obj
                       THEN next_action.obj["timeout"]
                       ELSE 5000
        IN  /\ last.run.calls = <<Call("sleep", "", "", "", <<timeout>>)>>
            /\ last.run.exc = ""
            /\ ResultIn(action_result) = "success"

C27_Witness ==
    /\ pc = "record"
    /\ detected_platform = "web"
    /\ step = 1
    /\ KindOf(next_action) = "wait"
    /\ "timeout" \notin DOMAIN next_action.obj
    /\ last.run.calls = <<Call("sleep", "", "", "", <<5000>>)>>
    /\ ResultIn(action_result) = "success"

(***************************************************************************)
(* C25: the step loop of a task terminates for every sequence of oracle    *)
(* responses, and leaving it because the step cap is exhausted is a normal *)
(* end.  Stated with a variant: inside the loop the oracle always has an   *)
(* answer to return, every step of the main thread either leaves the loop  *)
(* or strictly decreases LoopVariant, which is never negative, so the loop *)
(* is left after at most 3 * StepCap steps; and the step that leaves the   *)
(* loop at the cap after a non-terminal outcome goes on to the next task   *)
(* with no fault and with nothing but that outcome added to the history.   *)
(***************************************************************************)
LoopVariant(p, n) ==
    3 * (StepCap - n) + (CASE p = "request" -> 2
                           [] p = "dispatch" -> 1
                           [] OTHER -> 0)

C25_LoopTerminates ==
    [][InLoop =>
        /\ pc = "request" => ServiceOutcomes(step, warmup) /= {}
        /\ LoopVariant(pc, step) >= 0
        /\ InLoop' => LoopVariant(pc', step') < LoopVariant(pc, step)
        /\ (/\ pc = "record"
            /\ step = StepCap
            /\ ~Breaks(action_result)
            /\ page_source_file /= None) =>
               /\ pc' = "for"
               /\ fault' = ""
               /\ history_actions' = Append(history_actions, action_result)]_vars

C25_Witness ==
    /\ pc = "for"
    /\ task > 0
    /\ fault = ""
    /\ step = StepCap
    /\ requests = StepCap
    /\ Len(history_actions) = StepCap
    /\ ~Breaks(LastRecord)
    /\ page_source_file /= None

(***************************************************************************)
(* C28: process_next_action returns an outcome for every text the oracle   *)
(* can return, so no oracle response makes it raise: the main thread never *)
(* ends in the TypeError or KeyError that subscripting the parsed value    *)
(* raises outside the try block.                                           *)
(***************************************************************************)
C28_DispatchAlwaysReturns ==
    ~(/\ pc = "crashed"
      /\ fault \in {"TypeError", "KeyError"}
      /\ json_loads(next_action).ok)

(***************************************************************************)
(* C29: an instruction that is not JSON ends the run of the task at that   *)
(* step: its record is {"action": "error", "result": "Invalid JSON"} with  *)
(* a null source ref, recording it appends it to the history and leaves    *)
(* the loop, and once it is in the history no oracle request is made for   *)
(* that task.                                                              *)
(***************************************************************************)
C29_InvalidJsonEndsRun ==
    [][/\ (pc = "record" /\ ~json_loads(next_action).ok) =>
              /\ KindOf(action_result) = "error"
              /\ ResultIn(action_result) = "Invalid JSON"
              /\ DOMAIN action_result.obj = {"action", "result"}
              /\ page_source_file = None
              /\ screenshot_file = None
              /\ history_actions' = Append(history_actions, action_result)
              /\ pc' = "for"
              /\ requests' = requests
       /\ (\E i \in 1..Len(history_actions) :
               ResultIn(history_actions[i]) = "Invalid JSON") =>
              (requests' = requests \/ task' /= task)]_vars

C29_Witness ==
    /\ pc = "for"
    /\ task > 0
    /\ fault = ""
    /\ step < StepCap
    /\ next_action = Garbage
    /\ HasRecords
    /\ ResultIn(LastRecord) = "Invalid JSON"
    /\ requests = Len(history_actions)

(***************************************************************************)
(* C30: every call of process_next_action on an instruction that parses    *)
(* as JSON, whose capture calls return, captures exactly once: it returns  *)
(* an outcome, and its calls are those of the step's executor followed by  *)
(* page_source and then save_screenshot.                                   *)
(***************************************************************************)
C30_CaptureOnceAfterAction ==
    [][(/\ pc = "dispatch"
        /\ dispatches' = dispatches + 1
        /\ json_loads(next_action).ok
        /\ fault' /= "capture") =>
           /\ pc' = "record"
           /\ last'.captures = <<Call("page_source", "", "", "", <<>>),
                                 Call("save_screenshot", "", "", "", <<>>)>>
           /\ last'.calls = last'.run.calls \o last'.captures]_vars

(***************************************************************************)
(* C31: each oracle request that returned yields exactly one history       *)
(* record: whenever the main thread is outside the step loop of a task it  *)
(* started, the history holds as many records as oracle requests were made *)
(* for the task, and when the last record is a finish or an error its step *)
(* file is written.                                                        *)
(***************************************************************************)
C31_OneRecordPerRequest ==
    (/\ task > 0
     /\ pc \in {"for", "crashed"}
     /\ fault \notin {"initial capture", "oracle"}) =>
        /\ Len(history_actions) = requests
        /\ (HasRecords /\ Breaks(LastRecord)) =>
               \E f \in files :
                   /\ f.path = StepFile(f.path.folder, Len(history_actions))
                   /\ f.step = Len(history_actions)

(***************************************************************************)
(* C32: tasks run one after another on the one open session; a task that   *)
(* is not skipped starts with an empty history, no requests or dispatches  *)
(* and the step counter at 0 (1 once the loop is entered), every oracle    *)
(* request is handed the history of this task alone, step - 1 records with *)
(* step at most 50; and skipping a task makes no oracle request, no        *)
(* dispatch and no capture.                                                *)
(***************************************************************************)
C32_TasksAreIndependent ==
    [][/\ task' /= task =>
              /\ pc = "for"
              /\ session = "open"
              /\ (pc' = "done" \/ task' = task + 1)
       /\ (StartTask /\ pc' /= "crashed") =>
              /\ history_actions' = <<>>
              /\ requests' = 0
              /\ dispatches' = 0
              /\ step' = (IF pc' = "request" THEN 1 ELSE 0)
              /\ \A f \in files' : f.path.folder = task' /\ f.step = 0
       /\ SkipTask =>
              /\ requests' = requests
              /\ dispatches' = dispatches
              /\ files' = files
              /\ session' = session
              /\ pc' = "for"
       /\ (pc = "request" /\ requests' = requests + 1) =>
              /\ oracle_history' = history_actions
              /\ Len(oracle_history') = step - 1
              /\ requests = step - 1
              /\ step <= StepCap]_vars

C32_Witness ==
    /\ task = 2
    /\ pc = "dispatch"
    /\ step = StepCap
    /\ requests = StepCap
    /\ Len(oracle_history) = StepCap - 1
    /\ \E f \in files : f.path = StepFile(2, StepCap - 1)

====
